---- MODULE Spec2Model ----
(***************************************************************************)
(* A model of ranking_updater.py: one scheduled run of main() after        *)
(* another against the snapshot file ranking_data.json.                    *)
(*                                                                         *)
(* Text is modelled where the code computes on it:                         *)
(*   - a team code or a numeric token is a sequence of characters, a       *)
(*     character being a digit 0..9 or NonDigit (any other character);     *)
(*   - display strings (names, member numbers, URLs) are TLA+ strings;     *)
(*     the Japanese literals of the source are written in ASCII            *)
(*     ("TeamNo." for the placeholder prefix, "male"/"female" for the      *)
(*     gender markers);                                                    *)
(*   - a timestamp is the number of the run that produced it, and          *)
(*     NoneTime stands for Python's None in a timestamp field;             *)
(*   - a float is kept in hundredths.                                      *)
(* The network, the HTML and PDF libraries and the clock are the           *)
(* environment: each step draws their outcome from a small set.            *)
(***************************************************************************)
EXTENDS Integers, Sequences, FiniteSets, TLC

\* ------------------------------------------------------------------ bounds
\* Number of runs of main() a behaviour holds.
MaxRuns == 3

\* Longest digit suffix of a team code in the team-id specification.
MaxSuffix == 3

\* Most tokens on a line of a standings page in the parser specification.
MaxTokens == 2

\* Most anchors in the division's row in the locator specification.
MaxAnchors == 2

\* ------------------------------------------------------------- basic values
\* Python's None in a string-valued field (a URL).
None == "None"

\* Python's None in a timestamp field; every real timestamp is >= 1.
NoneTime == 0

\* A character that is not a decimal digit.
NonDigit == 10

\* The division code, TARGET_DIVISION_NAME.split()[0].
DivisionCode == <<0, 2, 8>>

DigitChar == <<"0", "1", "2", "3", "4", "5", "6", "7", "8", "9">>

\* str of a digit sequence, for f-strings.
RECURSIVE DigitsStr(_)
DigitsStr(s) ==
    IF s = <<>> THEN "" ELSE DigitChar[Head(s) + 1] \o DigitsStr(Tail(s))

\* str.isdigit(): non-empty and decimal digits only.
IsDigit(tok) == tok # <<>> /\ \A i \in 1..Len(tok) : tok[i] \in 0..9

\* int(tok) for a token on which int() does not raise.
RECURSIVE IntOf(_)
IntOf(tok) ==
    IF tok = <<>> THEN 0
    ELSE IntOf(SubSeq(tok, 1, Len(tok) - 1)) * 10 + tok[Len(tok)]

\* ------------------------------------------------------------ team identity
\* str.replace('028', ''): every non-overlapping occurrence, left to right.
RECURSIVE Replace028(_)
Replace028(s) ==
    IF Len(s) < 3 THEN s
    ELSE IF SubSeq(s, 1, 3) = DivisionCode
         THEN Replace028(SubSeq(s, 4, Len(s)))
         ELSE <<Head(s)>> \o Replace028(Tail(s))

\* str.lstrip('0')
RECURSIVE LStrip0(_)
LStrip0(s) == IF s # <<>> /\ Head(s) = 0 THEN LStrip0(Tail(s)) ELSE s

\* s[-2:]
LastTwo(s) == IF Len(s) <= 2 THEN s ELSE SubSeq(s, Len(s) - 1, Len(s))

\* team_code.replace('028','').lstrip('0') or team_code[-2:]
DeriveTeamId(team_code) ==
    IF LStrip0(Replace028(team_code)) = <<>>
    THEN LastTwo(team_code)
    ELSE LStrip0(Replace028(team_code))

\* TEAM_NAME_MAP, keyed '1'..'11'.
TEAM_NAME_MAP ==
    <<"Kangaroo Kick", "Oku niki", "Wagamama foundry", "Hinerisugita!",
      "Tokyo Bayashis", "Lucky Flockers", "Taigaku Straight Flush",
      "Happy Lucky Ricky", "Rui X sei", "yattenna", "Tamanchu">>

\* key in TEAM_NAME_MAP: the keys are the decimal numerals of 1..11.
InTeamNameMap(team_id) ==
    /\ IsDigit(team_id)
    /\ Head(team_id) # 0
    /\ IntOf(team_id) \in 1..Len(TEAM_NAME_MAP)

\* f'TeamNo.{team_id}'
Placeholder(team_id) == "TeamNo." \o DigitsStr(team_id)

\* TEAM_NAME_MAP.get(team_id, f'TeamNo.{team_id}')
StaticTeamName(team_id) ==
    IF InTeamNameMap(team_id) THEN TEAM_NAME_MAP[IntOf(team_id)]
    ELSE Placeholder(team_id)

\* --------------------------------------------------------------- documents
\* Download locations of the three documents of the division's row.
S_URL == "http://www.poolplayers.jp/standings/028/S028111925.pdf"
R_URL == "http://www.poolplayers.jp/standings/028/R028111925.pdf"
P_URL == "http://www.poolplayers.jp/standings/028/P028111925.pdf"

\* Team names a roster may print, in ascending string order (the order
\* sorted() uses on team_name).
RosterNames == <<"Alpha", "Beta", "Gamma">>

NameRank(name) == CHOOSE i \in 1..Len(RosterNames) : RosterNames[i] = name

\* ------------------------------------------------------------ roster parser
\* A roster document as the player blocks the line scanner attaches to a
\* team header: (team_code, team_name) of column idx and the block's groups.
RosterBlocks ==
    [b1 |-> [team_code |-> <<0, 2, 8, 0, 1>>, team_name |-> "Beta",
             sl |-> <<5>>, member |-> "15428", name |-> "Murayama, Shotaro"],
     b2 |-> [team_code |-> <<0, 2, 8, 0, 2>>, team_name |-> "Alpha",
             sl |-> <<2>>, member |-> "16770", name |-> "Oku, Yuki"],
     b3 |-> [team_code |-> <<0, 2, 8, 0, 1>>, team_name |-> "Beta",
             sl |-> <<5>>, member |-> "15343", name |-> "Iwano, Atsushi"]]

\* Readable roster PDFs: no player block, one team, two teams in three blocks.
RosterDocs ==
    { <<>>,
      <<RosterBlocks.b1>>,
      <<RosterBlocks.b1, RosterBlocks.b2, RosterBlocks.b3>> }

\* extract_team_roster: one entry per attached block, in document order.
extract_team_roster(doc) ==
    [i \in 1..Len(doc) |->
        [team_id       |-> DeriveTeamId(doc[i].team_code),
         team_code     |-> doc[i].team_code,
         team_name     |-> doc[i].team_name,
         player_name   |-> doc[i].name,
         player_number |-> doc[i].member,
         gender        |-> "-",
         sl            |-> IntOf(doc[i].sl)]]

\* The players of one team, in entry order.
RECURSIVE PlayersOf(_, _)
PlayersOf(entries, team_id) ==
    IF entries = <<>> THEN <<>>
    ELSE (IF Head(entries).team_id = team_id
          THEN <<[player_name   |-> Head(entries).player_name,
                  player_number |-> Head(entries).player_number,
                  gender        |-> Head(entries).gender,
                  sl            |-> Head(entries).sl]>>
          ELSE <<>>) \o PlayersOf(Tail(entries), team_id)

\* The dict `grouped` in insertion order: a team per first-seen team_id.
RECURSIVE GroupedTeams(_, _, _)
GroupedTeams(entries, i, seen) ==
    IF i > Len(entries) THEN <<>>
    ELSE IF entries[i].team_id \in seen
         THEN GroupedTeams(entries, i + 1, seen)
         ELSE <<[team_id   |-> entries[i].team_id,
                 team_name |-> entries[i].team_name,
                 players   |-> PlayersOf(entries, entries[i].team_id)]>>
              \o GroupedTeams(entries, i + 1, seen \cup {entries[i].team_id})

\* list insertion that keeps equal names in their first-seen order.
RECURSIVE InsertByName(_, _)
InsertByName(team, sorted) ==
    IF sorted = <<>> THEN <<team>>
    ELSE IF NameRank(team.team_name) < NameRank(Head(sorted).team_name)
         THEN <<team>> \o sorted
         ELSE <<Head(sorted)>> \o InsertByName(team, Tail(sorted))

\* sorted(teams, key=team_name): a stable sort.
RECURSIVE SortedByName(_)
SortedByName(teams) ==
    IF teams = <<>> THEN <<>>
    ELSE InsertByName(teams[Len(teams)],
                      SortedByName(SubSeq(teams, 1, Len(teams) - 1)))

\* group_roster_by_team
group_roster_by_team(roster_entries) ==
    SortedByName(GroupedTeams(roster_entries, 1, {}))

\* roster_name_map: team_id -> team_name of this run's roster, as a lookup
\* that answers None for a team the roster does not name.
RosterName(roster_grouped, team_id) ==
    IF \E i \in 1..Len(roster_grouped) : roster_grouped[i].team_id = team_id
    THEN roster_grouped[CHOOSE i \in 1..Len(roster_grouped) :
                            roster_grouped[i].team_id = team_id].team_name
    ELSE None

\* --------------------------------------------------------- standings parser
\* A page of the standings PDF as the code reads it: whether the text holds
\* "Total:", where "Team #" was found ("before" or "after" the total label,
\* or "absent"), and the whitespace-separated tokens after each label.
Page(total, label, teams, points) ==
    [has_total |-> total, team_label |-> label,
     team_tokens |-> teams, point_tokens |-> points]

\* A plausible slip: `break` instead of `continue` on a rejected point token.
RECURSIVE AddPairsStopAtBad(_, _, _, _)
AddPairsStopAtBad(ranking_data, team_nums, points, i) ==
    IF i > Len(team_nums) THEN ranking_data
    ELSE IF \E k \in 1..Len(ranking_data) :
                ranking_data[k].team_id = team_nums[i]
    THEN AddPairsStopAtBad(ranking_data, team_nums, points, i + 1)
    ELSE IF IsDigit(points[i])
    THEN AddPairsStopAtBad(
             Append(ranking_data,
                    [team_id |-> team_nums[i], points |-> IntOf(points[i])]),
             team_nums, points, i + 1)
    ELSE ranking_data

\* for team_id, point in zip(...): the first value of a team is kept, and a
\* point token int() rejects is skipped.
RECURSIVE AddPairs(_, _, _, _)
AddPairs(ranking_data, team_nums, points, i) ==
    IF i > Len(team_nums) THEN ranking_data
    ELSE AddPairs(
           IF /\ \A k \in 1..Len(ranking_data) :
                     ranking_data[k].team_id # team_nums[i]
              /\ IsDigit(points[i])
           THEN Append(ranking_data,
                       [team_id |-> team_nums[i], points |-> IntOf(points[i])])
           ELSE ranking_data,
           team_nums, points, i + 1)

\* What one page adds to ranking_data (lines 145-173).
PageRecords(ranking_data, page) ==
    IF page.has_total /\ page.team_label = "before"
    THEN IF /\ Len(SelectSeq(page.team_tokens, IsDigit)) = Len(page.point_tokens)
            /\ Len(SelectSeq(page.team_tokens, IsDigit)) > 0
         THEN AddPairs(ranking_data, SelectSeq(page.team_tokens, IsDigit),
                       page.point_tokens, 1)
         ELSE ranking_data
    ELSE ranking_data

\* ranking_data after the loop over pdf.pages, in insertion order.
RECURSIVE RankingData(_)
RankingData(pages) ==
    IF pages = <<>> THEN <<>>
    ELSE PageRecords(RankingData(SubSeq(pages, 1, Len(pages) - 1)),
                     pages[Len(pages)])

\* A plausible slip: sort_values without ascending=False.
SortedAscending(rows) ==
    { [i \in 1..Len(rows) |-> rows[p[i]]] :
        p \in { q \in Permutations(1..Len(rows)) :
                  \A i \in 1..(Len(rows) - 1) :
                      rows[q[i]].points <= rows[q[i + 1]].points } }

\* df.sort_values(by='points', ascending=False): the rows by points,
\* largest first; the order of rows with equal points is whatever the sort
\* algorithm leaves, so every such order is a possible result.
SortedByPoints(rows) ==
    { [i \in 1..Len(rows) |-> rows[p[i]]] :
        p \in { q \in Permutations(1..Len(rows)) :
                  \A i \in 1..(Len(rows) - 1) :
                      rows[q[i]].points >= rows[q[i + 1]].points } }

\* The data frames extract_and_process_ranking may return for a readable
\* PDF; `none` marks the None it returns for pdf_file None.
extract_and_process_ranking(pages) ==
    { [none |-> FALSE, rows |-> r] : r \in SortedByPoints(RankingData(pages)) }

NoRankingDf == [none |-> TRUE, rows |-> <<>>]

\* Readable standings PDFs.
StandingsDocs ==
    { \* token counts differ: no record
      <<Page(TRUE, "before", << <<1>>, <<2>> >>, << <<5, 0>> >>)>>,
      \* {"1": 50, "2": 70}
      <<Page(TRUE, "before", << <<1>>, <<2>> >>, << <<5, 0>>, <<7, 0>> >>)>>,
      \* a rejected point token, then a page repeating team 3 and tying 1, 2
      <<Page(TRUE, "before", << <<2>>, <<3>> >>, << <<7, NonDigit>>, <<1, 0>> >>),
        Page(TRUE, "before", << <<1>>, <<2>>, <<3>> >>,
             << <<5, 0>>, <<5, 0>>, <<9, 0>> >>)>> }

\* -------------------------------------------------- individual-stats parser
\* A line of the individual-stats PDF that the line pattern matches, as its
\* named groups; avg is the decimal token as (integer part, hundredths).
StatLines ==
    [l1 |-> [name |-> "Hayato Takenaka", member |-> "16997", sl |-> <<2>>,
             gender |-> "M", team |-> <<0, 2, 8, 1, 0>>, tmp |-> "6",
             tmore |-> "5", avg |-> <<14, 0>>, rate |-> "70.0"],
     l2 |-> [name |-> "Yuki Oku", member |-> "16770", sl |-> <<3>>,
             gender |-> "f", team |-> <<0, 2, 8, 0, 2>>, tmp |-> "4",
             tmore |-> "1", avg |-> <<7, 25>>, rate |-> "36.2"]]

\* Readable individual-stats PDFs: no matching line, one, two.
StatsDocs ==
    { <<>>, <<StatLines.l1>>, <<StatLines.l2, StatLines.l1>> }

\* gender.upper() mapped to the markers; anything else is kept.
GenderMarker(gender) ==
    IF gender \in {"M", "m"} THEN "male"
    ELSE IF gender \in {"F", "f"} THEN "female"
    ELSE gender

\* float(avg), in hundredths.
FloatOf(avg) == avg[1] * 100 + avg[2]

\* extract_individual_stats: one record per matching line, in order.
extract_individual_stats(doc) ==
    [i \in 1..Len(doc) |->
        [team_name     |-> StaticTeamName(DeriveTeamId(doc[i].team)),
         player_name   |-> doc[i].name,
         player_number |-> doc[i].member,
         gender        |-> GenderMarker(doc[i].gender),
         sl            |-> IntOf(doc[i].sl),
         wins          |-> doc[i].tmore \o "/" \o doc[i].tmp,
         avg_points    |-> FloatOf(doc[i].avg),
         points_rate   |-> doc[i].rate \o "%"]]

\* The placeholder players built from the roster (lines 456-465, 516-525).
RosterIndividuals(roster_entries) ==
    [i \in 1..Len(roster_entries) |->
        [team_name     |-> roster_entries[i].team_name,
         player_name   |-> roster_entries[i].player_name,
         player_number |-> roster_entries[i].player_number,
         gender        |-> roster_entries[i].gender,
         sl            |-> roster_entries[i].sl,
         wins          |-> "0/0",
         avg_points    |-> 0,
         points_rate   |-> "0%"]]

\* ------------------------------------------------------ rating-change report
\* A row of the report's tables after the two header rows: its number of
\* cells, whether the first cell holds a link, and the texts read from it.
ReportRows ==
    [x1 |-> [tds |-> 6, link |-> TRUE, player_name |-> "Hayato Takenaka",
             code |-> "16997", old_sl |-> "2", old_date |-> "10/01",
             new_sl |-> "3", new_date |-> "11/19"],
     x2 |-> [tds |-> 6, link |-> TRUE, player_name |-> "Yuki Oku",
             code |-> "16770", old_sl |-> "3", old_date |-> "10/08",
             new_sl |-> "2", new_date |-> "11/12"],
     x3 |-> [tds |-> 6, link |-> TRUE, player_name |-> "Somebody Else",
             code |-> "20001", old_sl |-> "4", old_date |-> "10/08",
             new_sl |-> "5", new_date |-> "11/12"],
     x4 |-> [tds |-> 4, link |-> TRUE, player_name |-> "Short Row",
             code |-> "15428", old_sl |-> "4", old_date |-> "10/08",
             new_sl |-> "5", new_date |-> "11/12"]]

\* The report the endpoint may answer with: three full rows and a short one.
ReportPages ==
    { <<ReportRows.x1, ReportRows.x4, ReportRows.x2, ReportRows.x3>> }

\* len(tds) < 5: the smallest number of cells of a row that is read.
MinCells == 5

\* sl_changes: a record per row with at least MinCells cells and a link.
RECURSIVE ParsedChanges(_)
ParsedChanges(rows) ==
    IF rows = <<>> THEN <<>>
    ELSE (IF Head(rows).tds >= MinCells /\ Head(rows).link
          THEN <<[player_name   |-> Head(rows).player_name,
                  member_number |-> Head(rows).code,
                  old_sl        |-> Head(rows).old_sl,
                  old_date      |-> Head(rows).old_date,
                  new_sl        |-> Head(rows).new_sl,
                  new_date      |-> Head(rows).new_date]>>
          ELSE <<>>) \o ParsedChanges(Tail(rows))

\* individual_members: the player numbers of the individuals in the
\* snapshot file as it is on disk when the report is read.
IndividualMembers(file_exists, on_disk) ==
    IF file_exists
    THEN { on_disk.individuals[i].player_number :
             i \in 1..Len(on_disk.individuals) }
    ELSE {}

\* A plausible slip: keep the changes of the members that are NOT known.
FilterOutMembers(changes, members) ==
    SelectSeq(changes, LAMBDA c : c.member_number \notin members)

\* filtered_changes
FilterChanges(changes, members) ==
    SelectSeq(changes, LAMBDA c : c.member_number \in members)

\* extract_sl_changes: [] when the request or the parsing raises.
extract_sl_changes(response, file_exists, on_disk) ==
    IF response.ok
    THEN FilterChanges(ParsedChanges(response.rows),
                       IndividualMembers(file_exists, on_disk))
    ELSE <<>>

\* What the report endpoint may do in one run.
ReportResponses ==
    {[ok |-> FALSE, rows |-> <<>>]}
        \cup {[ok |-> TRUE, rows |-> r] : r \in ReportPages}

\* ----------------------------------------------------------- snapshot merge
\* a or b, on URLs.
OrElse(a, b) == IF a # None THEN a ELSE b

\* existing = {} read through .get(): the defaults main() falls back on.
EmptySnapshot ==
    [last_checked        |-> NoneTime,
     last_checked_source |-> None,
     last_updated        |-> NoneTime,
     source_pdf          |-> None,
     individuals         |-> <<>>,
     individuals_pdf     |-> None,
     sl_changes          |-> <<>>,
     ranking             |-> <<>>,
     roster              |-> <<>>,
     roster_pdf          |-> None]

\* A plausible slip: the base structure starts from nothing.
BaseDataFresh(prior, now, latest) ==
    [EmptySnapshot EXCEPT !.last_checked = now,
                          !.last_checked_source = OrElse(latest, prior.source_pdf)]

\* data_to_save as first built (lines 421-432).
BaseData(prior, now, latest) ==
    [last_checked        |-> now,
     last_checked_source |-> OrElse(latest, prior.source_pdf),
     last_updated        |-> prior.last_updated,
     source_pdf          |-> prior.source_pdf,
     individuals         |-> prior.individuals,
     individuals_pdf     |-> prior.individuals_pdf,
     sl_changes          |-> prior.sl_changes,
     ranking             |-> prior.ranking,
     roster              |-> prior.roster,
     roster_pdf          |-> prior.roster_pdf]

\* roster_name_map.get(tid) or TEAM_NAME_MAP.get(tid) or f"TeamNo.{tid}"
ResolveTeamName(roster_grouped, team_id) ==
    IF RosterName(roster_grouped, team_id) # None
    THEN RosterName(roster_grouped, team_id)
    ELSE StaticTeamName(team_id)

\* A plausible slip: the static table is asked before the roster.
FinalRankingStaticFirst(rows, roster_grouped) ==
    [i \in 1..Len(rows) |->
        [team_name |-> IF InTeamNameMap(rows[i].team_id)
                       THEN StaticTeamName(rows[i].team_id)
                       ELSE ResolveTeamName(roster_grouped, rows[i].team_id),
         team_id   |-> rows[i].team_id,
         points    |-> rows[i].points]]

\* final_ranking.to_dict('records') (lines 479-486).
FinalRanking(rows, roster_grouped) ==
    [i \in 1..Len(rows) |->
        [team_name |-> ResolveTeamName(roster_grouped, rows[i].team_id),
         team_id   |-> rows[i].team_id,
         points    |-> rows[i].points]]

\* The zero-point ranking built from the roster (lines 494-497, 512-515).
FallbackRanking(roster_grouped) ==
    [i \in 1..Len(roster_grouped) |->
        [team_name |-> roster_grouped[i].team_name,
         team_id   |-> roster_grouped[i].team_id,
         points    |-> 0]]

\* Lines 439-442: the roster fields of data_to_save.
MergeRoster(data, roster_grouped, roster_url) ==
    [data EXCEPT !.roster = IF roster_grouped # <<>> THEN roster_grouped ELSE @,
                 !.roster_pdf = OrElse(roster_url, @)]

\* `individuals` after the roster fallback of lines 455-466.
MergedIndividuals(parsed, roster_entries) ==
    IF parsed = <<>> /\ roster_entries # <<>>
    THEN RosterIndividuals(roster_entries)
    ELSE parsed

\* Lines 468-469.
MergeIndividuals(data, parsed, roster_entries, p_url, roster_url) ==
    [data EXCEPT !.individuals = MergedIndividuals(parsed, roster_entries),
                 !.individuals_pdf = OrElse(p_url, OrElse(roster_url, @))]

\* The condition of line 477.
RankingFromStandings(df, from_roster) ==
    ~df.none /\ df.rows # <<>> /\ ~from_roster

\* A plausible slip: the guard of line 477 forgets individuals_from_roster.
MergeRankingIgnoresRosterFlag(data, df, from_roster, roster_grouped, now, latest, roster_url) ==
    IF ~df.none /\ df.rows # <<>>
    THEN [data EXCEPT !.last_updated = now,
                      !.source_pdf = latest,
                      !.ranking = FinalRanking(df.rows, roster_grouped)]
    ELSE IF roster_grouped # <<>>
    THEN [data EXCEPT !.ranking = FallbackRanking(roster_grouped),
                      !.last_updated = now,
                      !.source_pdf = OrElse(latest, OrElse(roster_url, @))]
    ELSE data

\* A plausible slip: last_updated advances although no ranking was built.
MergeRankingAlwaysStamps(data, df, from_roster, roster_grouped, now, latest, roster_url) ==
    IF RankingFromStandings(df, from_roster)
    THEN [data EXCEPT !.last_updated = now,
                      !.source_pdf = latest,
                      !.ranking = FinalRanking(df.rows, roster_grouped)]
    ELSE IF roster_grouped # <<>>
    THEN [data EXCEPT !.ranking = FallbackRanking(roster_grouped),
                      !.last_updated = now,
                      !.source_pdf = OrElse(latest, OrElse(roster_url, @))]
    ELSE [data EXCEPT !.last_updated = now]

\* Lines 475-502: the ranking fields when the standings URL was located.
MergeRanking(data, df, from_roster, roster_grouped, now, latest, roster_url) ==
    IF RankingFromStandings(df, from_roster)
    THEN [data EXCEPT !.last_updated = now,
                      !.source_pdf = latest,
                      !.ranking = FinalRanking(df.rows, roster_grouped)]
    ELSE IF roster_grouped # <<>>
    THEN [data EXCEPT !.ranking = FallbackRanking(roster_grouped),
                      !.last_updated = now,
                      !.source_pdf = OrElse(latest, OrElse(roster_url, @))]
    ELSE data

\* A plausible slip: the branch without a standings URL stamps like the other.
MergeWithoutUrlStamps(data, roster_grouped, roster_entries, now) ==
    IF roster_grouped # <<>>
    THEN [data EXCEPT !.ranking = FallbackRanking(roster_grouped),
                      !.individuals = RosterIndividuals(roster_entries),
                      !.last_updated = now]
    ELSE data

\* Lines 511-526: the branch taken when no standings URL was located.
MergeWithoutUrl(data, roster_grouped, roster_entries, now) ==
    IF roster_grouped # <<>>
    THEN [data EXCEPT !.ranking = FallbackRanking(roster_grouped),
                      !.individuals = RosterIndividuals(roster_entries),
                      !.last_updated = IF @ # NoneTime THEN @ ELSE now]
    ELSE data

\* ------------------------------------------------------------------- state
VARIABLES
    exists,                  \* os.path.exists(JSON_FILENAME)
    file,                    \* the snapshot stored in ranking_data.json
    pc,                      \* where main() stands
    clock,                   \* runs started so far
    existing,                \* main's `existing`
    data_to_save,            \* main's `data_to_save`
    latest_pdf_url,          \* main's locals, named as in the source
    roster_pdf_url,
    now_jst,
    roster_entries,
    roster_grouped,
    ranking_df,
    p_pdf_url,
    individuals,
    individuals_from_roster,
    sl_response,             \* what the rating-change endpoint answered
    codes,                   \* team-id specification: two team codes
    ids,                     \* team-id specification: their team ids
    page,                    \* parser specification: a standings page
    parsed,                  \* parser specification: the frames returned
    row,                     \* locator specification: the row's anchors
    found                    \* locator specification: the URLs returned

locals == <<latest_pdf_url, roster_pdf_url, now_jst, roster_entries,
            roster_grouped, ranking_df, p_pdf_url, individuals,
            individuals_from_roster, sl_response>>

\* The variables of the parser and the locator specification.
pure_io == <<page, parsed, row, found>>

vars == <<exists, file, pc, clock, existing, data_to_save, locals, codes, ids,
          pure_io>>

NoResponse == [ok |-> FALSE, rows |-> <<>>]

Init ==
    /\ exists = FALSE
    /\ file = EmptySnapshot
    /\ pc = "idle"
    /\ clock = 0
    /\ existing = EmptySnapshot
    /\ data_to_save = EmptySnapshot
    /\ latest_pdf_url = None
    /\ roster_pdf_url = None
    /\ now_jst = NoneTime
    /\ roster_entries = <<>>
    /\ roster_grouped = <<>>
    /\ ranking_df = NoRankingDf
    /\ p_pdf_url = None
    /\ individuals = <<>>
    /\ individuals_from_roster = FALSE
    /\ sl_response = NoResponse
    /\ codes = <<>>
    /\ ids = <<>>
    /\ page = <<>>
    /\ parsed = <<>>
    /\ row = <<>>
    /\ found = <<>>

\* ----------------------------------------------------------------- main()
\* Lines 405-432: load the prior snapshot, look for the standings and the
\* roster link (each lookup finds its URL or returns None), take the time.
Start ==
    /\ pc \in {"idle", "done", "aborted"}
    /\ clock < MaxRuns
    /\ clock' = clock + 1
    /\ now_jst' = clock + 1
    /\ existing' = IF exists THEN file ELSE EmptySnapshot
    /\ \E latest \in {None, S_URL}, roster \in {None, R_URL} :
          /\ latest_pdf_url' = latest
          /\ roster_pdf_url' = roster
          /\ data_to_save' = BaseData(existing', now_jst', latest)
    /\ roster_entries' = <<>>
    /\ roster_grouped' = <<>>
    /\ ranking_df' = NoRankingDf
    /\ p_pdf_url' = None
    /\ individuals' = <<>>
    /\ individuals_from_roster' = FALSE
    /\ sl_response' = NoResponse
    /\ pc' = "roster"
    /\ UNCHANGED <<exists, file, codes, ids, pure_io>>

\* Lines 435-442: no roster URL, a failed download (download_pdf returns
\* None) or a readable roster PDF.
RosterStep ==
    /\ pc = "roster"
    /\ \E doc \in RosterDocs :
          /\ roster_pdf_url = None => doc = <<>>
          /\ roster_entries' = extract_team_roster(doc)
    /\ roster_grouped' = IF roster_entries' # <<>>
                         THEN group_roster_by_team(roster_entries')
                         ELSE <<>>
    /\ data_to_save' = MergeRoster(data_to_save, roster_grouped', roster_pdf_url)
    /\ pc' = IF latest_pdf_url # None THEN "standings" ELSE "nourl"
    /\ UNCHANGED <<exists, file, clock, existing, latest_pdf_url,
                   roster_pdf_url, now_jst, ranking_df, p_pdf_url, individuals,
                   individuals_from_roster, sl_response, codes, ids, pure_io>>

\* Line 436, 242: the roster download is not a PDF pdfplumber can open, or
\* a page's text cannot be extracted; nothing catches the exception.
RosterPdfRaises ==
    /\ pc = "roster"
    /\ roster_pdf_url # None
    /\ pc' = "aborted"
    /\ UNCHANGED <<exists, file, clock, existing, data_to_save, locals, codes, ids, pure_io>>

\* Lines 445-446: a failed download gives None, a readable PDF a data frame.
StandingsStep ==
    /\ pc = "standings"
    /\ \/ ranking_df' = NoRankingDf
       \/ \E doc \in StandingsDocs :
             ranking_df' \in extract_and_process_ranking(doc)
    /\ pc' = "stats"
    /\ UNCHANGED <<exists, file, clock, existing, data_to_save, latest_pdf_url,
                   roster_pdf_url, now_jst, roster_entries, roster_grouped,
                   p_pdf_url, individuals, individuals_from_roster,
                   sl_response, codes, ids, pure_io>>

\* Lines 446, 140: pdfplumber raises on the standings download.
StandingsPdfRaises ==
    /\ pc = "standings"
    /\ pc' = "aborted"
    /\ UNCHANGED <<exists, file, clock, existing, data_to_save, locals, codes, ids, pure_io>>

\* Lines 449-469: look for the individual-stats link, download and parse
\* it, fall back on the roster, store the individuals.
StatsStep ==
    /\ pc = "stats"
    /\ \E p_url \in {None, P_URL}, doc \in StatsDocs :
          /\ p_url = None => doc = <<>>
          /\ p_pdf_url' = p_url
          /\ individuals' =
                MergedIndividuals(extract_individual_stats(doc), roster_entries)
          /\ individuals_from_roster' =
                (extract_individual_stats(doc) = <<>> /\ roster_entries # <<>>)
          /\ data_to_save' =
                MergeIndividuals(data_to_save, extract_individual_stats(doc),
                                 roster_entries, p_url, roster_pdf_url)
    /\ pc' = "sl"
    /\ UNCHANGED <<exists, file, clock, existing, latest_pdf_url,
                   roster_pdf_url, now_jst, roster_entries, roster_grouped,
                   ranking_df, sl_response, codes, ids, pure_io>>

\* Lines 452, 196: pdfplumber raises on the individual-stats download.
StatsPdfRaises ==
    /\ pc = "stats"
    /\ p_pdf_url' = P_URL
    /\ pc' = "aborted"
    /\ UNCHANGED <<exists, file, clock, existing, data_to_save, latest_pdf_url,
                   roster_pdf_url, now_jst, roster_entries, roster_grouped,
                   ranking_df, individuals, individuals_from_roster,
                   sl_response, codes, ids, pure_io>>

\* Lines 472-473: the rating-change report, filtered against the file on disk.
SlChangesStep ==
    /\ pc = "sl"
    /\ \E response \in ReportResponses :
          /\ sl_response' = response
          /\ data_to_save' =
                [data_to_save EXCEPT
                    !.sl_changes = extract_sl_changes(response, exists, file)]
    /\ pc' = "ranking"
    /\ UNCHANGED <<exists, file, clock, existing, latest_pdf_url,
                   roster_pdf_url, now_jst, roster_entries, roster_grouped,
                   ranking_df, p_pdf_url, individuals, individuals_from_roster,
                   codes, ids, pure_io>>

\* Lines 475-506.
RankingStep ==
    /\ pc = "ranking"
    /\ data_to_save' =
          MergeRanking(data_to_save, ranking_df, individuals_from_roster,
                       roster_grouped, now_jst, latest_pdf_url, roster_pdf_url)
    /\ pc' = "write"
    /\ UNCHANGED <<exists, file, clock, existing, locals, codes, ids, pure_io>>

\* Lines 507-526.
NoUrlStep ==
    /\ pc = "nourl"
    /\ data_to_save' =
          MergeWithoutUrl(data_to_save, roster_grouped, roster_entries, now_jst)
    /\ pc' = "write"
    /\ UNCHANGED <<exists, file, clock, existing, locals, codes, ids, pure_io>>

\* Lines 529-533: the snapshot is written. (A failing write is caught and
\* reported there; the storage is taken to accept the write.)
Write ==
    /\ pc = "write"
    /\ file' = data_to_save
    /\ exists' = TRUE
    /\ pc' = "done"
    /\ UNCHANGED <<clock, existing, data_to_save, locals, codes, ids, pure_io>>

Next ==
    \/ Start
    \/ RosterStep
    \/ RosterPdfRaises
    \/ StandingsStep
    \/ StandingsPdfRaises
    \/ StatsStep
    \/ StatsPdfRaises
    \/ SlChangesStep
    \/ RankingStep
    \/ NoUrlStep
    \/ Write

Spec == Init /\ [][Next]_vars

\* ------------------------------------------------- team-id specification
\* The digits team codes are drawn from.
CodeDigits == {0, 1, 2, 8}

\* Digit strings of 1..n characters.
Suffixes(n) == UNION { [1..k -> CodeDigits] : k \in 1..n }

\* (?P<team>028\d+) of the individual-stats line pattern (line 203).
StatsAccepts(code) ==
    /\ Len(code) >= Len(DivisionCode) + 1
    /\ SubSeq(code, 1, Len(DivisionCode)) = DivisionCode
    /\ IsDigit(code)

\* (028\d{2}) of the roster's team-header patterns (lines 256, 266).
RosterAccepts(code) ==
    /\ Len(code) = Len(DivisionCode) + 2
    /\ SubSeq(code, 1, Len(DivisionCode)) = DivisionCode
    /\ IsDigit(code)

\* Two team codes of one document, and the parser that reads it.
InitIds ==
    /\ exists = FALSE
    /\ file = EmptySnapshot
    /\ pc = "codes"
    /\ clock = 0
    /\ existing = EmptySnapshot
    /\ data_to_save = EmptySnapshot
    /\ latest_pdf_url = None
    /\ roster_pdf_url = None
    /\ now_jst = NoneTime
    /\ roster_entries = <<>>
    /\ roster_grouped = <<>>
    /\ ranking_df = NoRankingDf
    /\ p_pdf_url = None
    /\ individuals = <<>>
    /\ individuals_from_roster = FALSE
    /\ sl_response = NoResponse
    /\ codes \in { [parser |-> p, a |-> DivisionCode \o x, b |-> DivisionCode \o y] :
                     p \in {"stats", "roster"},
                     x \in Suffixes(MaxSuffix), y \in Suffixes(MaxSuffix) }
    /\ ids = <<>>
    /\ page = <<>>
    /\ parsed = <<>>
    /\ row = <<>>
    /\ found = <<>>

\* Lines 203-207: the individual-stats parser derives the ids of two lines.
StatsTeamIds ==
    /\ pc = "codes"
    /\ codes.parser = "stats"
    /\ StatsAccepts(codes.a) /\ StatsAccepts(codes.b)
    /\ ids' = <<DeriveTeamId(codes.a), DeriveTeamId(codes.b)>>
    /\ pc' = "derived"
    /\ UNCHANGED <<exists, file, clock, existing, data_to_save, locals, codes, pure_io>>

\* Lines 256-270, 294-295: the roster parser derives the ids of two headers.
RosterTeamIds ==
    /\ pc = "codes"
    /\ codes.parser = "roster"
    /\ RosterAccepts(codes.a) /\ RosterAccepts(codes.b)
    /\ ids' = <<DeriveTeamId(codes.a), DeriveTeamId(codes.b)>>
    /\ pc' = "derived"
    /\ UNCHANGED <<exists, file, clock, existing, data_to_save, locals, codes, pure_io>>

NextIds == StatsTeamIds \/ RosterTeamIds

SpecIds == InitIds /\ [][NextIds]_vars

\* ================================================================== claims
\* The run has written its snapshot: `existing` is the prior snapshot,
\* `file` the persisted one, the locals what this run obtained.
Done == pc = "done"

\* The standings document URL was located this run.
Located == latest_pdf_url # None

\* The individual-stats document gave this run no record: `individuals` is
\* empty, or was filled from the roster because the parse was empty.
NoStatsRecords == individuals = <<>> \/ individuals_from_roster

\* The standings document parsed into a non-empty team-to-points mapping.
StandingsParsed == Located /\ ~ranking_df.none /\ ranking_df.rows # <<>>

\* The team ids of this run's roster.
TeamIdsOfRoster ==
    { roster_entries[i].team_id : i \in 1..Len(roster_entries) }

\* ranking holds exactly one record per roster team, each with 0 points.
ZeroRankingPerTeam(ranking) ==
    /\ Len(ranking) = Cardinality(TeamIdsOfRoster)
    /\ \A t \in TeamIdsOfRoster : \E i \in 1..Len(ranking) : ranking[i].team_id = t
    /\ \A i \in 1..Len(ranking) :
          ranking[i].points = 0 /\ ranking[i].team_id \in TeamIdsOfRoster

\* inds holds one all-zero record per roster entry, in roster order.
ZeroPlayersPerEntry(inds) ==
    /\ Len(inds) = Len(roster_entries)
    /\ \A i \in 1..Len(inds) :
          /\ inds[i].player_number = roster_entries[i].player_number
          /\ inds[i].player_name = roster_entries[i].player_name
          /\ inds[i].team_name = roster_entries[i].team_name
          /\ inds[i].wins = "0/0"
          /\ inds[i].avg_points = 0
          /\ inds[i].points_rate = "0%"

\* The player numbers of a list of individuals.
MembersOf(inds) == { inds[i].player_number : i \in 1..Len(inds) }

\* The changes a response holds for the given members; none if it failed.
ChangesFor(response, members) ==
    IF response.ok
    THEN SelectSeq(ParsedChanges(response.rows),
                   LAMBDA c : \E m \in members : c.member_number = m)
    ELSE <<>>

\* C1: a run that got no individual-stats record and parsed no roster entry
\* persists the prior snapshot's individuals list unchanged, also when the
\* standings URL was located.
C1_IndividualsRetained ==
    (Done /\ NoStatsRecords /\ roster_entries = <<>>)
        => file.individuals = existing.individuals

\* C2 as stated: a run that parsed a roster and did not build the ranking
\* from standings persists one zero-point record per roster team and
\* last_updated = this run's timestamp, whatever last_updated was before.
C2_AlwaysStamped ==
    (Done /\ roster_entries # <<>>
          /\ ~(StandingsParsed /\ ~individuals_from_roster))
        => /\ ZeroRankingPerTeam(file.ranking)
           /\ file.last_updated = now_jst

\* C2 as amended: the same run persists one zero-point record per roster
\* team; last_updated is this run's timestamp when the standings URL was
\* located or the prior last_updated was null, and the prior last_updated
\* otherwise.
C2_StampedUnlessKept ==
    (Done /\ roster_entries # <<>>
          /\ ~(StandingsParsed /\ ~individuals_from_roster))
        => /\ ZeroRankingPerTeam(file.ranking)
           /\ file.last_updated =
                 IF Located \/ existing.last_updated = NoneTime
                 THEN now_jst
                 ELSE existing.last_updated

\* C2's case: a roster-only run without a standings URL over a snapshot
\* that already carries a last_updated.
C2_Witness ==
    /\ Done /\ roster_entries # <<>> /\ ~Located
    /\ existing.last_updated # NoneTime
    /\ file.ranking # <<>>

\* C3 as stated: after a run whose rating-change report was fetched and
\* parsed, sl_changes holds exactly the fetched changes of the members of
\* the individuals list this same run persists.
C3_FilteredByPersisted ==
    (Done /\ Located /\ sl_response.ok)
        => file.sl_changes = ChangesFor(sl_response, MembersOf(file.individuals))

\* C3 as amended: sl_changes holds exactly the fetched changes of the
\* members of the individuals list of the prior snapshot, the one on disk
\* while the run was executing.
C3_FilteredByPrior ==
    (Done /\ Located /\ sl_response.ok)
        => file.sl_changes = ChangesFor(sl_response, MembersOf(existing.individuals))

\* C3's case: a fetched report filtered to a non-empty list while the
\* run's own individuals differ from the prior ones.
C3_Witness ==
    /\ Done /\ Located /\ sl_response.ok
    /\ file.sl_changes # <<>>
    /\ MembersOf(file.individuals) # MembersOf(existing.individuals)

\* C4: no failure of a source step aborts a run before the snapshot write.
C4_NeverAborts == pc # "aborted"

\* C5: a run that builds no ranking from standings and parsed no roster
\* persists the prior ranking, last_updated and source_pdf, and sets
\* last_checked to its own timestamp.
C5_RankingFrame ==
    (Done /\ ~StandingsParsed /\ roster_entries = <<>>)
        => /\ file.ranking = existing.ranking
           /\ file.last_updated = existing.last_updated
           /\ file.source_pdf = existing.source_pdf
           /\ file.last_checked = now_jst

\* C5's case: such a run over a snapshot that holds a ranking, with the
\* standings URL located and a document that parsed to nothing.
C5_Witness ==
    /\ Done /\ Located /\ ~ranking_df.none /\ ranking_df.rows = <<>>
    /\ roster_entries = <<>>
    /\ existing.ranking # <<>>
    /\ existing.last_updated # NoneTime
    /\ existing.last_checked # file.last_checked

\* C6 as stated: in every run the persisted sl_changes is the result of a
\* rating-change fetch of this run (the empty list if it failed), never the
\* list carried over from the prior snapshot.
C6_AlwaysFetched ==
    Done => \E response \in ReportResponses :
                file.sl_changes = ChangesFor(response, MembersOf(existing.individuals))

\* C6 as amended: when the standings URL was located, sl_changes is the
\* result of this run's fetch (empty if it failed); when it was not, no
\* fetch is made and sl_changes is the prior snapshot's list.
C6_FetchedWhenLocated ==
    Done => file.sl_changes =
              IF Located
              THEN ChangesFor(sl_response, MembersOf(existing.individuals))
              ELSE existing.sl_changes

\* C6's case: a run without a standings URL over a snapshot whose
\* sl_changes list is not empty.
C6_Witness ==
    Done /\ ~Located /\ existing.sl_changes # <<>>

\* C7: a run without individual-stats records whose roster has N >= 1
\* entries persists N all-zero individuals in roster order and one
\* zero-point ranking record per roster team, even when standings parsed.
C7_RosterPlaceholders ==
    (Done /\ NoStatsRecords /\ roster_entries # <<>>)
        => /\ ZeroPlayersPerEntry(file.individuals)
           /\ ZeroRankingPerTeam(file.ranking)

\* C7's case: three roster entries, no stats record, standings parsed.
C7_Witness ==
    /\ Done /\ StandingsParsed /\ individuals_from_roster
    /\ Len(roster_entries) = 3
    /\ Len(file.individuals) = 3

\* The roster parsed this run names the team of every standings row.
RosterNamesAllRows ==
    \A i \in 1..Len(ranking_df.rows) :
        ranking_df.rows[i].team_id \in TeamIdsOfRoster

\* ranking is the standings mapping with the roster's names: a record per
\* team of the mapping with its points and roster name, points descending.
StandingsRankingWithRosterNames(ranking) ==
    /\ Len(ranking) = Len(ranking_df.rows)
    /\ \A i \in 1..Len(ranking_df.rows) :
          \E j \in 1..Len(ranking) :
              /\ ranking[j].team_id = ranking_df.rows[i].team_id
              /\ ranking[j].points = ranking_df.rows[i].points
              /\ \E k \in 1..Len(roster_entries) :
                    /\ roster_entries[k].team_id = ranking[j].team_id
                    /\ roster_entries[k].team_name = ranking[j].team_name
    /\ \A i \in 1..(Len(ranking) - 1) : ranking[i].points >= ranking[i + 1].points

\* C8 as stated: when standings parse to a non-empty mapping and the roster
\* names each of its teams, the persisted ranking is that mapping with the
\* roster's names, ordered by points descending.
C8_StandingsRanking ==
    (Done /\ StandingsParsed /\ RosterNamesAllRows)
        => StandingsRankingWithRosterNames(file.ranking)

\* C8 as amended: the same, provided the individual-stats document gave at
\* least one record this run (otherwise the individuals come from the
\* roster and the ranking is the zero-point one of C7).
C8_StandingsRankingWithStats ==
    (Done /\ StandingsParsed /\ RosterNamesAllRows /\ ~NoStatsRecords)
        => StandingsRankingWithRosterNames(file.ranking)

\* C8's case: {"1": 50, "2": 70} with a roster naming teams 1 and 2.
C8_Witness ==
    /\ Done /\ StandingsParsed /\ RosterNamesAllRows /\ ~NoStatsRecords
    /\ Len(file.ranking) = 2
    /\ file.ranking[1] = [team_name |-> "Alpha", team_id |-> <<2>>, points |-> 70]
    /\ file.ranking[2] = [team_name |-> "Beta", team_id |-> <<1>>, points |-> 50]

\* C9: from an absent snapshot on, the persisted ranking is sorted by
\* points in non-increasing order and holds no team_id twice.
C9_RankingSortedUnique ==
    /\ \A i \in 1..(Len(file.ranking) - 1) :
          file.ranking[i].points >= file.ranking[i + 1].points
    /\ \A i, j \in 1..Len(file.ranking) :
          file.ranking[i].team_id = file.ranking[j].team_id => i = j

\* C9's case: a persisted ranking of three teams with unequal points.
C9_Witness ==
    /\ exists
    /\ Len(file.ranking) = 3
    /\ file.ranking[1].points > file.ranking[3].points

\* The code with the division-code prefix and then leading zeros stripped,
\* or its last two characters when that leaves nothing.
PrefixStripped(code) ==
    IF LStrip0(SubSeq(code, Len(DivisionCode) + 1, Len(code))) = <<>>
    THEN LastTwo(code)
    ELSE LStrip0(SubSeq(code, Len(DivisionCode) + 1, Len(code)))

\* C10: the derived team_id is the prefix-stripped code, and two distinct
\* team codes a parser accepts in one document get distinct team_ids.
C10_TeamIdsDistinct ==
    pc = "derived"
        => /\ ids[1] = PrefixStripped(codes.a)
           /\ ids[2] = PrefixStripped(codes.b)
           /\ codes.a # codes.b => ids[1] # ids[2]

\* --------------------------------------------- standings-parser specification
\* The variables of main() and of the team-id specification, at rest.
MainAtRest ==
    /\ exists = FALSE
    /\ file = EmptySnapshot
    /\ clock = 0
    /\ existing = EmptySnapshot
    /\ data_to_save = EmptySnapshot
    /\ latest_pdf_url = None
    /\ roster_pdf_url = None
    /\ now_jst = NoneTime
    /\ roster_entries = <<>>
    /\ roster_grouped = <<>>
    /\ ranking_df = NoRankingDf
    /\ p_pdf_url = None
    /\ individuals = <<>>
    /\ individuals_from_roster = FALSE
    /\ sl_response = NoResponse
    /\ codes = <<>>
    /\ ids = <<>>

\* Tokens a team-number line may hold: two team numbers and a word.
TeamTokens == { <<1>>, <<2>>, <<NonDigit>> }

\* Tokens a points line may hold: two integers and a token int() rejects.
PointTokens == { <<5, 0>>, <<7, 0>>, <<7, NonDigit>> }

\* Non-empty lines of at most n tokens.
Lines(tokens, n) == UNION { [1..k -> tokens] : k \in 1..n }

\* One page of a standings PDF, any layout of the two labels.
InitParse ==
    /\ MainAtRest
    /\ pc = "page"
    /\ page \in { Page(total, label, teams, points) :
                    total \in BOOLEAN,
                    label \in {"before", "after", "absent"},
                    teams \in Lines(TeamTokens, MaxTokens),
                    points \in Lines(PointTokens, MaxTokens) }
    /\ parsed = <<>>
    /\ row = <<>>
    /\ found = <<>>

\* extract_and_process_ranking on a PDF made of this page.
ParsePage ==
    /\ pc = "page"
    /\ \E df \in extract_and_process_ranking(<<page>>) : parsed' = <<df>>
    /\ pc' = "parsed"
    /\ UNCHANGED <<exists, file, clock, existing, data_to_save, locals, codes,
                   ids, page, row, found>>

\* extract_and_process_ranking on the same page text once more.
ParseAgain ==
    /\ pc = "parsed"
    /\ \E df \in extract_and_process_ranking(<<page>>) :
          parsed' = Append(parsed, df)
    /\ pc' = "reparsed"
    /\ UNCHANGED <<exists, file, clock, existing, data_to_save, locals, codes,
                   ids, page, row, found>>

NextParse == ParsePage \/ ParseAgain

SpecParse == InitParse /\ [][NextParse]_vars

\* The team-to-points mapping a returned frame holds.
MappingOf(df) ==
    { <<df.rows[i].team_id, df.rows[i].points>> : i \in 1..Len(df.rows) }

\* The page shows both labels, "Team #" first.
Labelled == page.has_total /\ page.team_label = "before"

\* The numeric tokens of the team-number line.
NumericTeams == SelectSeq(page.team_tokens, IsDigit)

\* The team numbers that stand over an integer points token.
TeamsWithPoints ==
    { NumericTeams[i] : i \in { k \in 1..Len(NumericTeams) :
                                  k <= Len(page.point_tokens)
                                  /\ IsDigit(page.point_tokens[k]) } }

\* C11 as stated: a page whose team-number line and points line hold the
\* same non-zero number of tokens gives one record per team-number token,
\* and parsing the page again gives the same mapping.
C11_RecordPerToken ==
    (pc = "reparsed" /\ Labelled
        /\ Len(page.team_tokens) = Len(page.point_tokens)
        /\ Len(page.team_tokens) > 0)
        => /\ Len(parsed[1].rows) = Len(page.team_tokens)
           /\ MappingOf(parsed[1]) = MappingOf(parsed[2])

\* C11 as amended: a page whose numeric team-number tokens and points
\* tokens have the same non-zero count gives one record per distinct team
\* number standing over an integer points token (so one per token when the
\* team numbers are distinct and every points token is an integer), and
\* parsing the page again gives the same mapping.
C11_RecordPerValidTeam ==
    (pc = "reparsed" /\ Labelled
        /\ Len(NumericTeams) = Len(page.point_tokens)
        /\ Len(NumericTeams) > 0)
        => /\ Len(parsed[1].rows) = Cardinality(TeamsWithPoints)
           /\ { parsed[1].rows[i].team_id : i \in 1..Len(parsed[1].rows) }
                 = TeamsWithPoints
           /\ (Cardinality(TeamsWithPoints) = Len(page.team_tokens)
                  => Len(parsed[1].rows) = Len(page.team_tokens))
           /\ MappingOf(parsed[1]) = MappingOf(parsed[2])

\* C11's case: two team numbers over a rejected and an integer points
\* token, parsed twice into one record.
C11_Witness ==
    /\ pc = "reparsed" /\ Labelled
    /\ Len(NumericTeams) = 2 /\ Len(page.point_tokens) = 2
    /\ NumericTeams[1] # NumericTeams[2]
    /\ ~IsDigit(page.point_tokens[1])
    /\ Len(parsed[1].rows) = 1 /\ Len(parsed[2].rows) = 1

\* ---------------------------------------------------- locator specification
\* BASE_URL
BASE_URL == "http://www.poolplayers.jp"

\* An anchor of the division's row. Its href, when it has one, is a path
\* (absolute or site-relative) ending in a file name of the shape
\* <type>028<digits><sep><ext>.
Anchor(has_href, abs, type, digits, sep, ext) ==
    [has_href |-> has_href, abs |-> abs, type |-> type, digits |-> digits,
     sep |-> sep, ext |-> ext]

\* a.get('href') of an anchor without the attribute.
NoHrefAnchor == Anchor(FALSE, FALSE, "", <<>>, "", "")

\* The anchors a row may hold: S/s/P/R files numbered 9 or 10, ending in
\* ".pdf", ".PDF" or "xpdf", absolute or not, and an anchor without href.
Anchors ==
    { Anchor(TRUE, abs, type, digits, e[1], e[2]) :
        abs \in BOOLEAN, type \in {"S", "s", "P", "R"},
        digits \in { <<9>>, <<1, 0>> },
        e \in { <<".", "pdf">>, <<".", "PDF">>, <<"x", "pdf">> } }
    \cup {NoHrefAnchor}

\* The href attribute as text.
Href(a) ==
    (IF a.abs THEN "https://files.poolplayers.jp/028/" ELSE "/standings/028/")
        \o a.type \o "028" \o DigitsStr(a.digits) \o a.sep \o a.ext

\* href if href.startswith('http') else BASE_URL + href
FullUrl(a) == IF a.abs THEN Href(a) ELSE BASE_URL \o Href(a)

\* re.search(r'S028(\d+)\.pdf', href) finds a match (line 55).
MatchesStandings(a) ==
    a.has_href /\ a.type = "S" /\ a.digits # <<>> /\ a.sep = "." /\ a.ext = "pdf"

\* re.search(rf'{type_char}028(\d+).pdf', href) finds a match (line 107):
\* the dot is not escaped and stands for any character.
MatchesType(a, type_char) ==
    a.has_href /\ a.type = type_char /\ a.digits # <<>> /\ a.ext = "pdf"

\* full_url.lower().endswith('.pdf') (line 73).
EndsWithPdf(a) ==
    a.has_href /\ a.sep = "." /\ a.ext \in {"pdf", "PDF"}

\* candidates.sort(reverse=True); candidates[0][1]: the URL of a candidate
\* with the largest int(m.group(1)). Candidates of equal number are ordered
\* by their URL text, which is not modelled: each of them is a possible
\* result.
LatestOf(anchors, candidates) ==
    { FullUrl(anchors[i]) :
        i \in { k \in candidates :
                  \A j \in candidates :
                      IntOf(anchors[j].digits) <= IntOf(anchors[k].digits) } }

\* find_latest_pdf_url on a row with these anchors (lines 43-77).
find_latest_pdf_url(anchors) ==
    IF \E i \in 1..Len(anchors) : MatchesStandings(anchors[i])
    THEN LatestOf(anchors,
                  { i \in 1..Len(anchors) : MatchesStandings(anchors[i]) })
    ELSE IF \E i \in 1..Len(anchors) : EndsWithPdf(anchors[i])
    THEN { FullUrl(anchors[CHOOSE i \in 1..Len(anchors) :
                              /\ EndsWithPdf(anchors[i])
                              /\ \A j \in 1..(i - 1) : ~EndsWithPdf(anchors[j])]) }
    ELSE {None}

\* find_pdf_url_by_type on a row with these anchors (lines 98-116).
find_pdf_url_by_type(anchors, type_char) ==
    IF \E i \in 1..Len(anchors) : MatchesType(anchors[i], type_char)
    THEN LatestOf(anchors,
                  { i \in 1..Len(anchors) : MatchesType(anchors[i], type_char) })
    ELSE {None}

\* A fetched standings page whose division row holds 1..MaxAnchors anchors,
\* and the document type asked for.
InitLocate ==
    /\ MainAtRest
    /\ pc = "row"
    /\ page = <<>>
    /\ parsed = <<>>
    /\ row \in { [type_char |-> t, anchors |-> as] :
                   t \in {"S", "P", "R"},
                   as \in UNION { [1..k -> Anchors] : k \in 1..MaxAnchors } }
    /\ found = <<>>

\* main() line 414: the standings document.
FindLatestPdfUrl ==
    /\ pc = "row"
    /\ row.type_char = "S"
    /\ \E url \in find_latest_pdf_url(row.anchors) : found' = <<url>>
    /\ pc' = "located"
    /\ UNCHANGED <<exists, file, clock, existing, data_to_save, locals, codes,
                   ids, page, parsed, row>>

\* main() lines 415, 449: a document of the given type.
FindPdfUrlByType ==
    /\ pc = "row"
    /\ \E url \in find_pdf_url_by_type(row.anchors, row.type_char) :
          found' = <<url>>
    /\ pc' = "located"
    /\ UNCHANGED <<exists, file, clock, existing, data_to_save, locals, codes,
                   ids, page, parsed, row>>

NextLocate == FindLatestPdfUrl \/ FindPdfUrlByType

SpecLocate == InitLocate /\ [][NextLocate]_vars

\* The letter in upper case, the extension in lower case.
UpperOf(type) == IF type = "s" THEN "S" ELSE type

LowerOf(ext) == IF ext = "PDF" THEN "pdf" ELSE ext

\* The href matches <type_char>028<digits>.pdf, letter case ignored.
MatchesIgnoringCase(a, type_char) ==
    /\ a.has_href
    /\ UpperOf(a.type) = type_char
    /\ a.digits # <<>>
    /\ a.sep = "."
    /\ LowerOf(a.ext) = "pdf"

\* The anchor's href, with the base URL in front unless it is absolute.
AbsoluteHref(a) ==
    IF a.abs THEN Href(a) ELSE "http://www.poolplayers.jp" \o Href(a)

\* C12: for a row with anchors, locating type S, P or R returns the URL of
\* an anchor whose href matches <type_char>028<digits>.pdf case-insensitively
\* with the largest integer <digits> among the matching anchors, prefixed
\* by the base URL only when the href is not absolute.
C12_LatestMatchIgnoringCase ==
    (pc = "located"
        /\ \E i \in 1..Len(row.anchors) :
              MatchesIgnoringCase(row.anchors[i], row.type_char))
        => \E i \in 1..Len(row.anchors) :
              /\ MatchesIgnoringCase(row.anchors[i], row.type_char)
              /\ \A j \in 1..Len(row.anchors) :
                    MatchesIgnoringCase(row.anchors[j], row.type_char)
                        => IntOf(row.anchors[j].digits)
                              <= IntOf(row.anchors[i].digits)
              /\ found[1] = AbsoluteHref(row.anchors[i])

====
